---- MODULE Spec2Model ----
(***************************************************************************)
(* A model of nmapsim.js: ListIPAddresses (the address-specification       *)
(* parser) and createPortScanResults (the report synthesizer).             *)
(*                                                                         *)
(* Strings are sequences of one-character strings.  A JavaScript number    *)
(* that takes part in 32-bit operations is a pair <<hi, lo>> standing for  *)
(* hi * 2^16 + lo with lo in 0 .. 2^16 - 1, so that values up to 2^32 and  *)
(* the signed results of <<, & and >> are represented exactly.             *)
(***************************************************************************)
EXTENDS Integers, Sequences, FiniteSets

(***************************************************************************)
(* Characters and strings                                                  *)
(***************************************************************************)
DigitChars == <<"0", "1", "2", "3", "4", "5", "6", "7", "8", "9">>

IsDigit(c) == \E k \in 1..10 : DigitChars[k] = c

DigitVal(c) == (CHOOSE k \in 1..10 : DigitChars[k] = c) - 1

InRange(c, lo, hi) == IsDigit(c) /\ DigitVal(c) >= lo /\ DigitVal(c) <= hi

RECURSIVE Number(_)
\* Number(s) / parseInt(s, 10) of a string of decimal digits; Number("") is 0.
Number(s) ==
    IF s = <<>> THEN 0
    ELSE Number(SubSeq(s, 1, Len(s) - 1)) * 10 + DigitVal(s[Len(s)])

RECURSIVE NumToStr(_)
\* String(n) of an integer, as string concatenation renders it.
NumToStr(n) ==
    IF n < 0 THEN <<"-">> \o NumToStr(0 - n)
    ELSE IF n < 10 THEN <<DigitChars[n + 1]>>
    ELSE NumToStr(n \div 10) \o <<DigitChars[(n % 10) + 1]>>

\* String.prototype.indexOf, 1-based; 0 when pat does not occur in s.
IndexOf(s, pat) ==
    LET hits == {k \in 1..(Len(s) - Len(pat) + 1) :
                    SubSeq(s, k, k + Len(pat) - 1) = pat}
    IN  IF hits = {} THEN 0 ELSE CHOOSE k \in hits : \A j \in hits : k <= j

\* String.prototype.includes
Includes(s, pat) == IndexOf(s, pat) # 0

\* Replace with its result thrown away: the text is left as it was.
ReplaceDiscarded(s, pat) == s

\* s.replace(pat, "") with a string pattern: the first occurrence is removed.
Replace(s, pat) ==
    LET k == IndexOf(s, pat)
    IN  IF k = 0 THEN s
        ELSE SubSeq(s, 1, k - 1) \o SubSeq(s, k + Len(pat), Len(s))

RECURSIVE Trim(_)
\* String.prototype.trim
Trim(s) ==
    IF s = <<>> THEN s
    ELSE IF s[1] = " " THEN Trim(Tail(s))
    ELSE IF s[Len(s)] = " " THEN Trim(SubSeq(s, 1, Len(s) - 1))
    ELSE s

RECURSIVE Split(_, _)
\* String.prototype.split with a one-character separator.
Split(s, sep) ==
    LET hits == {k \in 1..Len(s) : s[k] = sep}
    IN  IF hits = {} THEN <<s>>
        ELSE LET k == CHOOSE j \in hits : \A i \in hits : i <= j
             IN  Append(Split(SubSeq(s, 1, k - 1), sep),
                        SubSeq(s, k + 1, Len(s)))

(***************************************************************************)
(* JavaScript numbers and the 32-bit operators                             *)
(***************************************************************************)
W == 2 ^ 16

Half == 2 ^ 15

\* The number n (|n| < 2^31) as a pair.
Num(n) == <<n \div W, n % W>>

\* The value of a pair, for pairs known to be small.
Val(x) == x[1] * W + x[2]

NumPlus(x, y) == <<x[1] + y[1] + ((x[2] + y[2]) \div W), (x[2] + y[2]) % W>>

NumLeq(x, y) == x[1] < y[1] \/ (x[1] = y[1] /\ x[2] <= y[2])

ToUint32(x) == <<x[1] % W, x[2]>>

ToInt32(x) ==
    LET h == x[1] % W
    IN  <<IF h >= Half THEN h - W ELSE h, x[2]>>

\* x << k
ShiftLeft(x, k) ==
    LET u == ToUint32(x)
        n == k % 32
    IN  IF n >= 16
        THEN ToInt32(<<(u[2] * (2 ^ (n - 16))) % W, 0>>)
        ELSE ToInt32(<<((u[1] % (2 ^ (16 - n))) * (2 ^ n))
                          + ((u[2] * (2 ^ n)) \div W),
                       (u[2] * (2 ^ n)) % W>>)

\* The shift that >> and >>> share, on a pair already converted.
ShiftPair(v, k) ==
    LET n == k % 32
    IN  IF n >= 16 THEN Num(v[1] \div (2 ^ (n - 16)))
        ELSE <<v[1] \div (2 ^ n),
               ((v[1] % (2 ^ n)) * (2 ^ (16 - n))) + (v[2] \div (2 ^ n))>>

\* x >> k
ShiftRight(x, k) == ShiftPair(ToInt32(x), k)

\* x >>> k
UShiftRight(x, k) == ShiftPair(ToUint32(x), k)

RECURSIVE And16(_, _)
And16(a, b) ==
    IF a = 0 \/ b = 0 THEN 0
    ELSE ((a % 2) * (b % 2)) + 2 * And16(a \div 2, b \div 2)

\* x & y
BitAnd(x, y) == ToInt32(<<And16(x[1] % W, y[1] % W), And16(x[2], y[2])>>)

\* 0xffffffff
AllOnes == <<W - 1, W - 1>>

\* Math.pow(2, n), 0 <= n <= 32
Pow2(n) == IF n >= 16 THEN <<2 ^ (n - 16), 0>> ELSE <<0, 2 ^ n>>

(***************************************************************************)
(* int2ip, ip2int, subnetMaskToNumber                                      *)
(***************************************************************************)
Dot == <<".">>

\* (ip>>>24) +'.' + (ip>>16 & 255) +'.' + (ip>>8 & 255) +'.' + (ip & 255)
int2ip(ip) ==
    NumToStr(Val(UShiftRight(ip, 24))) \o Dot
        \o NumToStr(Val(BitAnd(ShiftRight(ip, 16), Num(255)))) \o Dot
        \o NumToStr(Val(BitAnd(ShiftRight(ip, 8), Num(255)))) \o Dot
        \o NumToStr(Val(BitAnd(ip, Num(255))))

RECURSIVE Reduce(_, _)
\* octets.reduce(function(ipInt, octet) {return (ipInt<<8) + parseInt(octet, 10)}, acc)
Reduce(octets, acc) ==
    IF octets = <<>> THEN acc
    ELSE Reduce(Tail(octets), NumPlus(ShiftLeft(acc, 8), Num(Number(Head(octets)))))

\* ip.split('.').reduce(..., 0) >>> 0
ip2int(ip) == UShiftRight(Reduce(Split(ip, "."), Num(0)), 0)

\* subnetMaskToNumber shifting by the prefix length instead of 32 minus it.
subnetMaskShiftedByMask(mask) == BitAnd(ShiftLeft(AllOnes, Number(mask)), AllOnes)

\* (0xffffffff << (32 - Number(mask))) & 0xffffffff
subnetMaskToNumber(mask) == BitAnd(ShiftLeft(AllOnes, 32 - Number(mask)), AllOnes)

(***************************************************************************)
(* The regular expressions.  Every one is anchored at the end ($), so a    *)
(* match starting at position k exists iff the suffix from k belongs to    *)
(* the language of the expression without its anchor.                      *)
(***************************************************************************)
\* 25[0-5]|2[0-4][0-9]|1[0-9][0-9]|[1-9][0-9]|[0-9]
IsOctet(s) ==
    \/ Len(s) = 3 /\ s[1] = "2" /\ s[2] = "5" /\ InRange(s[3], 0, 5)
    \/ Len(s) = 3 /\ s[1] = "2" /\ InRange(s[2], 0, 4) /\ IsDigit(s[3])
    \/ Len(s) = 3 /\ s[1] = "1" /\ IsDigit(s[2]) /\ IsDigit(s[3])
    \/ Len(s) = 2 /\ InRange(s[1], 1, 9) /\ IsDigit(s[2])
    \/ Len(s) = 1 /\ IsDigit(s[1])

\* The prefix alternation with 3[0-9]? for 3[0-2]?: 33 to 39 are accepted too.
IsPrefixLenUpTo39(s) ==
    \/ Len(s) = 1 /\ InRange(s[1], 1, 9)
    \/ Len(s) = 2 /\ InRange(s[1], 1, 3) /\ IsDigit(s[2])

\* [4-9]|(3[0-2]?)|(2[0-9]?)|(1[0-9]?)
IsPrefixLen(s) ==
    \/ Len(s) = 1 /\ InRange(s[1], 4, 9)
    \/ Len(s) = 1 /\ s[1] = "3"
    \/ Len(s) = 2 /\ s[1] = "3" /\ InRange(s[2], 0, 2)
    \/ Len(s) = 1 /\ s[1] = "2"
    \/ Len(s) = 2 /\ s[1] = "2" /\ IsDigit(s[2])
    \/ Len(s) = 1 /\ s[1] = "1"
    \/ Len(s) = 2 /\ s[1] = "1" /\ IsDigit(s[2])

\* (?:octet\.){3}octet
IsQuad(s) ==
    LET f == Split(s, ".")
    IN  Len(f) = 4 /\ \A k \in 1..4 : IsOctet(f[k])

\* octet(\-octet)?
IsOctetOrRange(s) ==
    LET r == Split(s, "-")
    IN  \/ Len(r) = 1 /\ IsOctet(r[1])
        \/ Len(r) = 2 /\ IsOctet(r[1]) /\ IsOctet(r[2])

\* quad\-quad
InStartStop(s) ==
    LET r == Split(s, "-")
    IN  Len(r) = 2 /\ IsQuad(r[1]) /\ IsQuad(r[2])

\* quad(\/prefix)?
InQuadOptPrefix(s) ==
    LET r == Split(s, "/")
    IN  \/ Len(r) = 1 /\ IsQuad(r[1])
        \/ Len(r) = 2 /\ IsQuad(r[1]) /\ IsPrefixLen(r[2])

\* quad(\/prefix)+
InCIDR(s) ==
    LET r == Split(s, "/")
    IN  Len(r) >= 2 /\ IsQuad(r[1]) /\ \A k \in 2..Len(r) : IsPrefixLen(r[k])

\* (?:octet(\-octet)?\.){3}octet(\-octet)?
InNmapHyphenOrSingle(s) ==
    LET f == Split(s, ".")
    IN  Len(f) = 4 /\ \A k \in 1..4 : IsOctetOrRange(f[k])

Suffix(s, k) == SubSeq(s, k, Len(s))

\* The characters an address specification is written with.
IsAddressChar(c) == IsDigit(c) \/ c \in {".", "-", "/"}

\* The start positions a match can have: no match contains a character that
\* is not an address character, so a match lies within the trailing run of them.
Candidates(s) ==
    {k \in 1..Len(s) : \A j \in k..Len(s) : IsAddressChar(s[j])}

\* commandString.match(testAnyMatch): <<>> for null, else <<match[0]>>, the
\* match at the leftmost start position.
testAnyMatch(s) ==
    LET hits == {k \in Candidates(s) :
                    \/ InStartStop(Suffix(s, k))
                    \/ InQuadOptPrefix(Suffix(s, k))
                    \/ InNmapHyphenOrSingle(Suffix(s, k))}
    IN  IF hits = {} THEN <<>>
        ELSE <<Suffix(s, CHOOSE k \in hits : \A j \in hits : k <= j)>>

testStartStop(s) == \E k \in Candidates(s) : InStartStop(Suffix(s, k))

testCIDR(s) == \E k \in Candidates(s) : InCIDR(Suffix(s, k))

testNmapHyphenOrSingle(s) ==
    \E k \in Candidates(s) : InNmapHyphenOrSingle(Suffix(s, k))

\* ^quad$
testSingleIP(s) == IsQuad(s)

(***************************************************************************)
(* Bounds of the model                                                     *)
(***************************************************************************)
\* The longest expansion of one token that the model carries out.
MaxExpand == 16

\* The most address tokens in a command given to ListIPAddresses directly.
MaxTokens == 2

\* The most address tokens in a command given to createPortScanResults.
MaxTargets == 2

\* The largest prefix length tried in a CIDR-shaped token.
MaxPrefix == 34

(***************************************************************************)
(* The expansion of one matched token                                      *)
(***************************************************************************)
RECURSIVE RangeLoopExclusive(_, _, _)
\* The address loop with i < endAddress for i <= endAddress.
RangeLoopExclusive(i, endAddress, list) ==
    IF NumLeq(i, endAddress) /\ i # endAddress
    THEN RangeLoopExclusive(NumPlus(i, Num(1)), endAddress, Append(list, int2ip(i)))
    ELSE list

RECURSIVE RangeLoop(_, _, _)
\* for (let i = startAddress; i <= endAddress; i++) addressList.push(int2ip(i))
RangeLoop(i, endAddress, list) ==
    IF NumLeq(i, endAddress)
    THEN RangeLoop(NumPlus(i, Num(1)), endAddress, Append(list, int2ip(i)))
    ELSE list

StartStopStart(tok) == ip2int(Split(tok, "-")[1])

StartStopEnd(tok) == ip2int(Split(tok, "-")[2])

\* startAddress & subnetMaskToNumber(cidrSize)
CidrStart(tok) ==
    BitAnd(ip2int(Split(tok, "/")[1]), subnetMaskToNumber(Split(tok, "/")[2]))

\* Math.pow(2, 32-cidrSize) + startAddress - 1
CidrEnd(tok) ==
    NumPlus(NumPlus(Pow2(32 - Number(Split(tok, "/")[2])), CidrStart(tok)),
            Num(-1))

\* _.range(start, stop): the integers from start up to, not including, stop
\* (down to, when stop is below start).  The start arrives as a string and is
\* taken as its number, which is what the commented examples at the end of
\* the file (172.16.0.1-3, 172-173.16-17.0-5.1-5) are written for.
Range(start, stop) ==
    IF start < stop
    THEN [k \in 1..(stop - start) |-> start + (k - 1)]
    ELSE [k \in 1..(start - stop) |-> start - (k - 1)]

\* The field list without the + 1 on the end of the range.
OctetListWithoutLast(oct) ==
    IF Includes(oct, <<"-">>)
    THEN Range(Number(Split(oct, "-")[1]), Number(Split(oct, "-")[2]))
    ELSE <<Number(oct)>>

\* if (oct.includes("-")) { oct = _.range(oct.split("-")[0],
\*     Number(oct.split("-")[1]) + 1) } else { oct = [ Number(oct) ] }
OctetList(oct) ==
    IF Includes(oct, <<"-">>)
    THEN Range(Number(Split(oct, "-")[1]), Number(Split(oct, "-")[2]) + 1)
    ELSE <<Number(oct)>>

RECURSIVE ForD(_, _, _, _, _)
ForD(a, b, c, octD, list) ==
    IF octD = <<>> THEN list
    ELSE ForD(a, b, c, Tail(octD),
              Append(list, NumToStr(a) \o Dot \o NumToStr(b) \o Dot
                               \o NumToStr(c) \o Dot \o NumToStr(Head(octD))))

RECURSIVE ForC(_, _, _, _, _)
ForC(a, b, octC, octD, list) ==
    IF octC = <<>> THEN list
    ELSE ForC(a, b, Tail(octC), octD, ForD(a, b, Head(octC), octD, list))

RECURSIVE ForB(_, _, _, _, _)
ForB(a, octB, octC, octD, list) ==
    IF octB = <<>> THEN list
    ELSE ForB(a, Tail(octB), octC, octD, ForC(a, Head(octB), octC, octD, list))

RECURSIVE ForA(_, _, _, _, _)
ForA(octA, octB, octC, octD, list) ==
    IF octA = <<>> THEN list
    ELSE ForA(Tail(octA), octB, octC, octD, ForB(Head(octA), octB, octC, octD, list))

\* The if / else-if chain of the loop body: the branch taken for a match.
Branch(tok) ==
    IF testStartStop(tok) THEN "startstop"
    ELSE IF testCIDR(tok) THEN "cidr"
    ELSE IF testSingleIP(tok) THEN "single"
    ELSE IF testNmapHyphenOrSingle(tok) /\ ~testSingleIP(tok) THEN "hyphen"
    ELSE "none"

\* addressList after the branch taken for tok.
Expand(tok, list) ==
    CASE Branch(tok) = "startstop" ->
            RangeLoop(StartStopStart(tok), StartStopEnd(tok), list)
      [] Branch(tok) = "cidr" ->
            RangeLoop(CidrStart(tok), CidrEnd(tok), list)
      [] Branch(tok) = "single" -> Append(list, tok)
      [] Branch(tok) = "hyphen" ->
            LET oct == Split(tok, ".")
            IN  ForA(OctetList(oct[1]), OctetList(oct[2]),
                     OctetList(oct[3]), OctetList(oct[4]), list)
      [] OTHER -> list

\* The expansion of tok has at most MaxExpand addresses: the guard that keeps
\* the address loops of the model finite.  The code has no such limit.
Small(tok) ==
    CASE Branch(tok) = "startstop" ->
            NumLeq(StartStopEnd(tok),
                   NumPlus(StartStopStart(tok), Num(MaxExpand - 1)))
      [] Branch(tok) = "cidr" ->
            NumLeq(CidrEnd(tok), NumPlus(CidrStart(tok), Num(MaxExpand - 1)))
      [] Branch(tok) = "hyphen" ->
            LET oct == Split(tok, ".")
                la == Len(OctetList(oct[1]))
                lb == Len(OctetList(oct[2]))
                lc == Len(OctetList(oct[3]))
                ld == Len(OctetList(oct[4]))
            IN  /\ la <= MaxExpand
                /\ la * lb <= MaxExpand
                /\ la * lb * lc <= MaxExpand
                /\ la * lb * lc * ld <= MaxExpand
      [] OTHER -> TRUE

(***************************************************************************)
(* The inputs: command strings and datasets                                *)
(***************************************************************************)
Space == <<" ">>

Quad(a, b, c, d) ==
    NumToStr(a) \o Dot \o NumToStr(b) \o Dot \o NumToStr(c) \o Dot \o NumToStr(d)

RECURSIVE Join(_)
\* The strings of a sequence joined with single spaces.
Join(words) ==
    IF words = <<>> THEN <<>>
    ELSE IF Len(words) = 1 THEN words[1]
    ELSE words[1] \o Space \o Join(Tail(words))

RECURSIVE PortList(_)
\* A space-separated list of ports, as a dataset row holds it.
PortList(ports) ==
    IF ports = <<>> THEN <<>>
    ELSE IF Len(ports) = 1 THEN NumToStr(ports[1])
    ELSE NumToStr(ports[1]) \o Space \o PortList(Tail(ports))

\* "sudo nmap"-like text before the addresses, without and with each of the
\* two ping-scan flags.
Prefixes ==
    { <<"n", "m", "a", "p">>,
      <<"n", "m", "a", "p", " ", "-", "s", "n">>,
      <<"n", "m", "a", "p", " ", "-", "P", "E", " ", "-", "o", "N">> }

\* Address tokens for ListIPAddresses: each grammar, tokens that contain one
\* another, a reversed and a one-address range, addresses above 127.255.255.255,
\* and tokens that are no address specification.
ParseTokens ==
    { Quad(1, 1, 1, 1),
      Quad(11, 1, 1, 1),
      Quad(300, 1, 1, 1),
      Quad(10, 0, 0, 5) \o <<"-">> \o Quad(10, 0, 0, 3),
      Quad(10, 0, 0, 2) \o <<"-">> \o Quad(10, 0, 0, 2),
      Quad(200, 0, 0, 255) \o <<"-">> \o Quad(200, 0, 1, 1),
      Quad(10, 0, 0, 0) \o <<"/", "3", "0">>,
      <<"1", "-", "2", ".", "3", ".", "4", ".", "5", "-", "6">>,
      <<"1", "7", "2", ".", "1", "6", ".", "0", "-", "1", ".", "9">>,
      <<"5", "-", "3", ".", "1", ".", "1", ".", "1">> }

\* The bases of the CIDR-shaped tokens, one below and two above 127.255.255.255.
CidrBases == { Quad(10, 0, 0, 1), Quad(192, 168, 1, 77), Quad(255, 255, 255, 255) }

CidrTokens ==
    { base \o <<"/">> \o NumToStr(p) : base \in CidrBases, p \in 0..MaxPrefix }

RECURSIVE TokenSeqs(_, _)
\* The sequences of at most n tokens of a pool.
TokenSeqs(pool, n) ==
    IF n = 0 THEN { <<>> }
    ELSE LET shorter == TokenSeqs(pool, n - 1)
         IN  shorter \cup { Append(ts, t) : ts \in shorter, t \in pool }

Command(prefix, toks) ==
    IF toks = <<>> THEN prefix ELSE prefix \o Space \o Join(toks)

ParseCommands ==
    { Command(<<"n", "m", "a", "p">>, toks) : toks \in TokenSeqs(ParseTokens, MaxTokens) }
        \cup { Command(<<"n", "m", "a", "p">>, <<t>>) : t \in CidrTokens }

Host(ip, latency, open, closed, filtered) ==
    [IP |-> ip, Latency |-> latency, PortsOpen |-> PortList(open),
     PortsClosed |-> PortList(closed), PortsFiltered |-> PortList(filtered)]

Latency1 == <<"0", ".", "0", "6", "2">>

Latency2 == <<"0", ".", "6", "6", "6">>

\* Dataset rows: two rows of the example data, a row without ports, a row
\* whose ports are out of numeric order with one port a digit-substring of
\* another category's port, and a row with one port in two categories.
HostA == Host(Quad(172, 16, 0, 1), Latency1, <<22, 53, 80, 443>>, <<>>, <<>>)

HostB == Host(Quad(8, 8, 8, 8), Latency2, <<100>>, <<200>>, <<300>>)

HostC == Host(Quad(172, 16, 0, 2), Latency1, <<>>, <<>>, <<>>)

HostD == Host(Quad(172, 16, 0, 3), Latency1, <<8>>, <<9>>, <<443, 80>>)

HostE == Host(Quad(172, 16, 0, 4), Latency2, <<80>>, <<>>, <<80>>)

Datasets == { <<HostB, HostA, HostC>>, <<HostD, HostA>>, <<HostE, HostB>>, <<>> }

ReportTokens ==
    { Quad(172, 16, 0, 1),
      Quad(8, 8, 8, 8),
      Quad(10, 10, 10, 10),
      Quad(172, 16, 0, 0) \o <<"/", "2", "9">> }

ReportCommands ==
    { Command(prefix, toks) :
        prefix \in Prefixes, toks \in TokenSeqs(ReportTokens, MaxTargets) }

(***************************************************************************)
(* The state                                                               *)
(***************************************************************************)
VARIABLES
    pc,               \* "idle", "loop" (at the while test), "returned",
                      \* "hosts" (at the for test), "done"
    caller,           \* "none", "direct" or "report": who called ListIPAddresses
    command,          \* the command string the entry point was called with
    commandString,    \* ListIPAddresses' commandString, trimmed as it goes
    addressList,      \* ListIPAddresses' addressList
    allAddresses,     \* <<>> for null, else <<allAddresses[0]>>
    iterTok,          \* the match the latest loop iteration handled
    iterFrom,         \* addressList's length when that iteration began
    data,             \* createPortScanResults' data
    pingScan,
    targetlist,
    totaladdresses,
    scannedaddresses,
    machine,          \* the index of the for-in loop over data, from 1
    result            \* the report, one record per "\r\n"-terminated line

vars ==
    <<pc, caller, command, commandString, addressList, allAddresses, iterTok,
      iterFrom, data, pingScan, targetlist, totaladdresses, scannedaddresses,
      machine, result>>

parserVars == <<commandString, addressList, allAddresses, iterTok, iterFrom>>

reportVars ==
    <<data, pingScan, targetlist, totaladdresses, scannedaddresses, machine, result>>

Init ==
    /\ pc = "idle"
    /\ caller = "none"
    /\ command = <<>>
    /\ commandString = <<>>
    /\ addressList = <<>>
    /\ allAddresses = <<>>
    /\ iterTok = <<>>
    /\ iterFrom = 0
    /\ data = <<>>
    /\ pingScan = FALSE
    /\ targetlist = <<>>
    /\ totaladdresses = 0
    /\ scannedaddresses = 0
    /\ machine = 0
    /\ result = <<>>

(***************************************************************************)
(* ListIPAddresses                                                         *)
(***************************************************************************)
\* Entry: addressList = [], allAddresses = commandString.match(testAnyMatch).
EnterList(cmd, who) ==
    /\ caller' = who
    /\ command' = cmd
    /\ commandString' = cmd
    /\ addressList' = <<>>
    /\ allAddresses' = testAnyMatch(cmd)
    /\ iterTok' = <<>>
    /\ iterFrom' = 0
    /\ pc' = "loop"

\* A direct call of ListIPAddresses(commandString).
CallListIPAddresses ==
    /\ pc = "idle"
    /\ \E cmd \in ParseCommands : EnterList(cmd, "direct")
    /\ UNCHANGED reportVars

\* commandString.replace(allAddresses[0], "").trim()
Remaining(text, tok) == Trim(Replace(text, tok))

\* One iteration of while (allAddresses != null): the branch for the match,
\* the removal of the match from commandString, and the next match.
LoopIteration ==
    /\ pc = "loop"
    /\ allAddresses # <<>>
    /\ Small(allAddresses[1])
    /\ addressList' = Expand(allAddresses[1], addressList)
    /\ commandString' = Remaining(commandString, allAddresses[1])
    /\ allAddresses' = testAnyMatch(commandString')
    /\ iterTok' = allAddresses[1]
    /\ iterFrom' = Len(addressList)
    /\ UNCHANGED <<pc, caller, command>>
    /\ UNCHANGED reportVars

\* return addressList, to a direct caller.
ReturnList ==
    /\ pc = "loop"
    /\ allAddresses = <<>>
    /\ caller = "direct"
    /\ pc' = "returned"
    /\ UNCHANGED <<caller, command>>
    /\ UNCHANGED parserVars
    /\ UNCHANGED reportVars

(***************************************************************************)
(* createPortScanResults                                                   *)
(***************************************************************************)
Line(kind, text, state) == [kind |-> kind, text |-> text, state |-> state]

\* "Starting Nmap 7.95 ( https://nmap.org )\r\n"
StartLine == Line("start", <<>>, "Starting Nmap 7.95 ( https://nmap.org )")

\* "Nmap scan report for " + IP + "\r\n"
ReportLine(ip) == Line("report", ip, "Nmap scan report for ")

\* "Host it up (" + Latency + "s latency).\r\n"
LatencyLine(latency) == Line("latency", latency, "Host it up (s latency).")

\* "PORT         STATE    SERVICE\r\n"
HeaderLine == Line("header", <<>>, "PORT         STATE    SERVICE")

\* port + "/tcp  " + state + "\r\n"
PortLine(port, state) == Line("port", port, state)

\* "\r\n"
BlankLine == Line("blank", <<>>, "")

\* "Nmap done: " + totaladdresses + " IP addresses (" + scannedaddresses
\*     + " host up) scanned in 26.18 seconds\r\n"
DoneLine(total, up) ==
    [kind |-> "done", total |-> NumToStr(total), up |-> NumToStr(up),
     state |-> "scanned in 26.18 seconds"]

\* commandString.includes(" -sn ") || commandString.includes(" -PE ")
PingScan(cmd) ==
    \/ Includes(cmd, <<" ", "-", "s", "n", " ">>)
    \/ Includes(cmd, <<" ", "-", "P", "E", " ">>)

\* The entry of createPortScanResults, up to the call of ListIPAddresses.
CallCreatePortScanResults ==
    /\ pc = "idle"
    /\ \E d \in Datasets, cmd \in ReportCommands :
        /\ data' = d
        /\ pingScan' = PingScan(cmd)
        /\ EnterList(cmd, "report")
    /\ result' = <<StartLine>>
    /\ scannedaddresses' = 0
    /\ UNCHANGED <<targetlist, totaladdresses, machine>>

\* ListIPAddresses returns into createPortScanResults:
\* targetlist = ListIPAddresses(commandString); totaladdresses = targetlist.length
ReturnToReport ==
    /\ pc = "loop"
    /\ allAddresses = <<>>
    /\ caller = "report"
    /\ targetlist' = addressList
    /\ totaladdresses' = Len(addressList)
    /\ machine' = 1
    /\ pc' = "hosts"
    /\ UNCHANGED <<caller, command, data, pingScan, scannedaddresses, result>>
    /\ UNCHANGED parserVars

\* Array.prototype.includes
ListIncludes(list, x) == \E k \in 1..Len(list) : list[k] = x

\* The test of a host without the test of its ports.
ScannedWithoutPorts(host, targets) == ListIncludes(targets, host.IP)

\* targetlist.includes(IP) && (PortsClosed != "" || PortsFiltered != "" || PortsOpen != "")
Scanned(host, targets) ==
    /\ ListIncludes(targets, host.IP)
    /\ \/ host.PortsClosed # <<>>
       \/ host.PortsFiltered # <<>>
       \/ host.PortsOpen # <<>>

\* sorted with word put after every element that does not compare greater.
InsertPort(sorted, word) ==
    LET before == {k \in 1..Len(sorted) : Number(sorted[k]) - Number(word) <= 0}
        n == IF before = {} THEN 0
             ELSE CHOOSE k \in before : \A j \in before : j <= k
    IN  SubSeq(sorted, 1, n) \o <<word>> \o SubSeq(sorted, n + 1, Len(sorted))

RECURSIVE SortPorts(_)
\* words.sort((a, b) => Number(a) - Number(b)), a stable sort.
SortPorts(words) ==
    IF words = <<>> THEN <<>>
    ELSE InsertPort(SortPorts(SubSeq(words, 1, Len(words) - 1)), words[Len(words)])

\* PortsFiltered + " " + PortsClosed + " " + PortsOpen, split and sorted.
SortedPorts(host) ==
    SortPorts(Split(host.PortsFiltered \o Space \o host.PortsClosed
                        \o Space \o host.PortsOpen, " "))

\* The if / else-if chain that picks the state of a port line.
PortState(host, word) ==
    IF Includes(host.PortsFiltered, word) THEN "filtered "
    ELSE IF Includes(host.PortsOpen, word) THEN "open "
    ELSE IF Includes(host.PortsClosed, word) THEN "closed "
    ELSE ""

RECURSIVE PortLines(_, _, _)
\* for (let word in sortedports): a line for every non-empty word.
PortLines(host, words, lines) ==
    IF words = <<>> THEN lines
    ELSE PortLines(host, Tail(words),
                   IF Head(words) # <<>>
                   THEN Append(lines, PortLine(Head(words), PortState(host, Head(words))))
                   ELSE lines)

\* What one scanned host adds to result.
HostBlock(host, ping) ==
    <<ReportLine(host.IP), LatencyLine(host.Latency)>>
        \o (IF ping THEN <<>> ELSE <<HeaderLine>>)
        \o (IF ping THEN <<>> ELSE PortLines(host, SortedPorts(host), <<>>))
        \o (IF ping THEN <<>> ELSE <<BlankLine>>)

\* One iteration of for (let machine in data).
HostIteration ==
    /\ pc = "hosts"
    /\ machine <= Len(data)
    /\ IF Scanned(data[machine], targetlist)
       THEN /\ scannedaddresses' = scannedaddresses + 1
            /\ result' = result \o HostBlock(data[machine], pingScan)
       ELSE UNCHANGED <<scannedaddresses, result>>
    /\ machine' = machine + 1
    /\ UNCHANGED <<pc, caller, command, data, pingScan, targetlist, totaladdresses>>
    /\ UNCHANGED parserVars

\* After the loop: the trailer line, and return result.
FinishReport ==
    /\ pc = "hosts"
    /\ machine > Len(data)
    /\ result' = Append(result, DoneLine(totaladdresses, scannedaddresses))
    /\ pc' = "done"
    /\ UNCHANGED <<caller, command, data, pingScan, targetlist, totaladdresses,
                   scannedaddresses, machine>>
    /\ UNCHANGED parserVars

Next ==
    \/ CallListIPAddresses
    \/ LoopIteration
    \/ ReturnList
    \/ CallCreatePortScanResults
    \/ ReturnToReport
    \/ HostIteration
    \/ FinishReport

Spec == Init /\ [][Next]_vars

(***************************************************************************)
(* What the properties are stated with: addresses as four octets, with     *)
(* ordinary arithmetic instead of the code's bit operations.               *)
(***************************************************************************)
\* The addresses the latest loop iteration appended.
Appended == SubSeq(addressList, iterFrom + 1, Len(addressList))

\* The words of a text, and its last word.
Words(text) == Split(text, " ")

LastWord(text) == Words(text)[Len(Words(text))]

\* A token that as a whole is an instance of one of the grammars the code accepts.
WholeToken(t) ==
    InStartStop(t) \/ InQuadOptPrefix(t) \/ InNmapHyphenOrSingle(t)

Octets(quad) == [k \in 1..4 |-> Number(Split(quad, ".")[k])]

Render(o) == Quad(o[1], o[2], o[3], o[4])

\* The address after o.
Succ(o) ==
    IF o[4] < 255 THEN <<o[1], o[2], o[3], o[4] + 1>>
    ELSE IF o[3] < 255 THEN <<o[1], o[2], o[3] + 1, 0>>
    ELSE IF o[2] < 255 THEN <<o[1], o[2] + 1, 0, 0>>
    ELSE <<o[1] + 1, 0, 0, 0>>

\* o is an address before p.
Before(o, p) ==
    \E k \in 1..4 : o[k] < p[k] /\ \A j \in 1..(k - 1) : o[j] = p[j]

RECURSIVE Upto(_, _)
\* The addresses from o to p, both included, rendered; none when p is before o.
Upto(o, p) ==
    IF Before(p, o) THEN <<>>
    ELSE IF o = p THEN <<Render(o)>>
    ELSE <<Render(o)>> \o Upto(Succ(o), p)

\* How many of the 8 bits of octet k a prefix of length p covers.
Kept(p, k) ==
    IF p >= 8 * k THEN 8 ELSE IF p <= 8 * (k - 1) THEN 0 ELSE p - 8 * (k - 1)

\* o with the low 32 - p bits cleared, and with them set.
Network(o, p) == [k \in 1..4 |-> o[k] - (o[k] % (2 ^ (8 - Kept(p, k))))]

LastOfBlock(o, p) ==
    [k \in 1..4 |-> Network(o, p)[k] + (2 ^ (8 - Kept(p, k))) - 1]

\* A token A.B.C.D/P: a valid dotted quad, a slash and a decimal number.
CidrShaped(t) ==
    LET r == Split(t, "/")
    IN  /\ Len(r) = 2
        /\ IsQuad(r[1])
        /\ r[2] # <<>>
        /\ \A k \in 1..Len(r[2]) : IsDigit(r[2][k])

CidrBase(t) == Octets(Split(t, "/")[1])

CidrP(t) == Number(Split(t, "/")[2])

RECURSIVE Flatten(_)
\* The concatenation of the expansions of tokens, each parsed on its own,
\* last token first.
Flatten(toks) ==
    IF toks = <<>> THEN <<>>
    ELSE Expand(toks[Len(toks)], <<>>) \o Flatten(SubSeq(toks, 1, Len(toks) - 1))

\* The tokens of a command whose words after the first are all address tokens.
CommandTokens(cmd) == Tail(Words(cmd))

AllTokens(cmd) ==
    \A k \in 1..Len(CommandTokens(cmd)) : WholeToken(CommandTokens(cmd)[k])

(***************************************************************************)
(* C1  Right-to-left consumption                                           *)
(***************************************************************************)
\* C1: for a command whose words after the first are all valid address
\* tokens t1 .. tn, ListIPAddresses returns expand(tn), expand(tn-1), ..,
\* expand(t1) concatenated: each token is consumed once, from the tail, also
\* when its text occurs earlier in the command.
C1_TailTokensInOrder ==
    (pc = "returned" /\ AllTokens(command))
        => addressList = Flatten(CommandTokens(command))

(***************************************************************************)
(* C2  No partial parse of an invalid token                                *)
(***************************************************************************)
\* C2: when the last whitespace-delimited token of the remaining text is not
\* as a whole an instance of a grammar, the loop stops: there is no match, so
\* no address is derived from a suffix of that token.
C2_NoPartialToken ==
    (pc = "loop" /\ ~WholeToken(LastWord(commandString)))
        => allAddresses = <<>>

(***************************************************************************)
(* C3  Accepted prefix lengths                                             *)
(***************************************************************************)
\* C3 as stated: a trailing token A.B.C.D/P with P outside 4..32 matches no
\* grammar, so the loop stops on it.
C3_PrefixFourToThirtyTwo ==
    (pc = "loop" /\ CidrShaped(LastWord(commandString))
                 /\ CidrP(LastWord(commandString)) \notin 4..32)
        => allAddresses = <<>>

\* C3 as amended: a trailing token A.B.C.D/P (P in decimal, no leading zero)
\* is matched, and then as a CIDR block, exactly when 1 <= P <= 32; for 0 and
\* for 33 and above there is no match, and a command ending in such a token
\* returns the empty list with its text untouched.
C3_PrefixOneToThirtyTwo ==
    /\ (pc = "loop" /\ CidrShaped(LastWord(commandString)))
          => IF CidrP(LastWord(commandString)) \in 1..32
             THEN /\ allAddresses = <<LastWord(commandString)>>
                  /\ Branch(allAddresses[1]) = "cidr"
             ELSE allAddresses = <<>>
    /\ (pc = "returned" /\ CidrShaped(LastWord(command))
                        /\ CidrP(LastWord(command)) \notin 1..32)
          => addressList = <<>> /\ commandString = command

\* A command ending in /33 has returned without an address.
C3_Witness ==
    /\ pc = "returned"
    /\ LastWord(command) = Quad(10, 0, 0, 1) \o <<"/", "3", "3">>
    /\ addressList = <<>>

(***************************************************************************)
(* C4  CIDR expansion                                                      *)
(***************************************************************************)
\* C4: for a matched CIDR token A.B.C.D/P the first and last address of the
\* loop are the base with its low 32 - P bits cleared and set, the two are
\* 2^(32-P) - 1 apart, and an iteration that expands the token appends
\* exactly the addresses from the first to the last in ascending order, each
\* a correct dotted quad, 2^(32-P) of them.
C4_CidrExpansion ==
    /\ (pc = "loop" /\ allAddresses # <<>> /\ Branch(allAddresses[1]) = "cidr")
          => LET t == allAddresses[1]
             IN  /\ int2ip(CidrStart(t)) = Render(Network(CidrBase(t), CidrP(t)))
                 /\ int2ip(CidrEnd(t)) = Render(LastOfBlock(CidrBase(t), CidrP(t)))
                 /\ NumPlus(CidrEnd(t), Num(1))
                        = NumPlus(CidrStart(t), Pow2(32 - CidrP(t)))
    /\ (iterTok # <<>> /\ Branch(iterTok) = "cidr")
          => /\ Appended = Upto(Network(CidrBase(iterTok), CidrP(iterTok)),
                                LastOfBlock(CidrBase(iterTok), CidrP(iterTok)))
             /\ Len(Appended) = 2 ^ (32 - CidrP(iterTok))

\* 192.168.1.77/29 has been expanded to its eight addresses.
C4_Witness ==
    /\ iterTok = Quad(192, 168, 1, 77) \o <<"/", "2", "9">>
    /\ Len(Appended) = 8
    /\ Appended[1] = Quad(192, 168, 1, 72)

(***************************************************************************)
(* C5  Start-stop expansion                                                *)
(***************************************************************************)
StartOf(t) == Octets(Split(t, "-")[1])

EndOf(t) == Octets(Split(t, "-")[2])

FieldList(field) ==
    LET r == Split(field, "-")
        lo == Number(r[1])
        hi == Number(r[Len(r)])
    IN  [k \in 1..(hi - lo + 1) |-> lo + (k - 1)]

FieldAscending(field) ==
    Number(Split(field, "-")[1]) <= Number(Split(field, "-")[Len(Split(field, "-"))])

\* The cartesian product of the four field lists, leftmost field slowest.
Product(t) ==
    LET f == Split(t, ".")
        A == FieldList(f[1])
        B == FieldList(f[2])
        C == FieldList(f[3])
        D == FieldList(f[4])
    IN  [n \in 1..(Len(A) * Len(B) * Len(C) * Len(D)) |->
            Quad(A[((n - 1) \div (Len(B) * Len(C) * Len(D))) + 1],
                 B[(((n - 1) \div (Len(C) * Len(D))) % Len(B)) + 1],
                 C[(((n - 1) \div Len(D)) % Len(C)) + 1],
                 D[((n - 1) % Len(D)) + 1])]

\* C6: an iteration that handles a per-octet token with a range in at least
\* one field, every range with lo <= hi, appends the cartesian product of the
\* four field lists in octet-major order; an iteration that handles an
\* unhyphenated dotted quad takes the single-address branch and appends that
\* one address only.
C6_PerOctetExpansion ==
    /\ (iterTok # <<>> /\ InNmapHyphenOrSingle(iterTok) /\ ~IsQuad(iterTok)
            /\ \A k \in 1..4 : FieldAscending(Split(iterTok, ".")[k]))
          => /\ Branch(iterTok) = "hyphen"
             /\ Appended = Product(iterTok)
    /\ (iterTok # <<>> /\ IsQuad(iterTok))
          => /\ Branch(iterTok) = "single"
             /\ Appended = <<iterTok>>

\* 1-2.3.4.5-6 has been expanded to its four addresses.
C6_Witness ==
    /\ iterTok = <<"1", "-", "2", ".", "3", ".", "4", ".", "5", "-", "6">>
    /\ Appended = <<Quad(1, 3, 4, 5), Quad(1, 3, 4, 6), Quad(2, 3, 4, 5), Quad(2, 3, 4, 6)>>

(***************************************************************************)
(* C10  Termination of the loop                                            *)
(***************************************************************************)
\* C10: at the loop test with a match, the match is not empty and occurs in
\* the remaining text, and the iteration leaves a strictly shorter text; at
\* the loop test without a match the loop is left; each match takes at most
\* one branch, which Branch being a function of the match states.
C10_LoopShortensText ==
    [][/\ (pc = "loop" /\ allAddresses # <<>>)
            => /\ Len(allAddresses[1]) > 0
               /\ Includes(commandString, allAddresses[1])
               /\ Len(commandString') < Len(commandString)
               /\ pc' = "loop"
       /\ (pc = "loop" /\ allAddresses = <<>>) => pc' \in {"returned", "hosts"}
      ]_vars

\* The loop has consumed two tokens and returned.
C10_Witness ==
    /\ pc = "returned"
    /\ Len(CommandTokens(command)) = 2
    /\ commandString = <<"n", "m", "a", "p">>
    /\ Len(addressList) > 1

(***************************************************************************)
(* C7 - C9  The report                                                     *)
(***************************************************************************)
IsReport(line) == line.kind = "report"

IsPort(line) == line.kind = "port"

\* The dataset rows the report is to show: targeted, with at least one port.
Shown(host) ==
    /\ host.IP \in {targetlist[k] : k \in 1..Len(targetlist)}
    /\ Len(host.PortsOpen) + Len(host.PortsClosed) + Len(host.PortsFiltered) > 0

\* The addresses of a sequence of hosts or of report lines.
HostIPs(hosts) == [k \in 1..Len(hosts) |-> hosts[k].IP]

LineTexts(lines) == [k \in 1..Len(lines) |-> lines[k].text]

\* The positions of the report lines.
ReportAt == {i \in 1..Len(result) : IsReport(result[i])}

\* The port lines of the block whose report line is at position i.
BlockPorts(i) ==
    LET next == CHOOSE j \in (i + 1)..Len(result) :
                    /\ result[j].kind \in {"report", "done"}
                    /\ \A m \in (i + 1)..(j - 1) : result[m].kind \notin {"report", "done"}
    IN  SelectSeq(SubSeq(result, i + 1, next - 1), IsPort)

\* The dataset row with an address; the addresses of every dataset are distinct.
HostOf(ip) == data[CHOOSE k \in 1..Len(data) : data[k].IP = ip]

\* The set of ports of a space-separated list.
PortSet(ports) == {Number(w) : w \in {Words(ports)[k] : k \in 1..Len(Words(ports))} \ {<<>>}}

AllPorts(host) ==
    PortSet(host.PortsOpen) \cup PortSet(host.PortsClosed) \cup PortSet(host.PortsFiltered)

\* C7: the blocks of the report are, in dataset order, the rows whose address
\* is in the expanded list and that have a port; the trailer counts the list's
\* length (duplicates included) and the blocks.
C7_BlocksInDatasetOrder ==
    pc = "done"
        => /\ targetlist = addressList
           /\ LineTexts(SelectSeq(result, IsReport)) = HostIPs(SelectSeq(data, Shown))
           /\ result[Len(result)].kind = "done"
           /\ result[Len(result)].up = NumToStr(Cardinality(ReportAt))
           /\ result[Len(result)].total = NumToStr(Len(targetlist))

\* The address list names 172.16.0.1 before 8.8.8.8, the dataset holds them
\* the other way round with a third row that has no ports, and the report
\* shows 8.8.8.8, then 172.16.0.1, and not the third.
C7_Witness ==
    /\ pc = "done"
    /\ data = <<HostB, HostA, HostC>>
    /\ targetlist # <<>>
    /\ targetlist[Len(targetlist)] = HostB.IP
    /\ ListIncludes(targetlist, HostC.IP)
    /\ LineTexts(SelectSeq(result, IsReport)) = <<HostB.IP, HostA.IP>>
    /\ scannedaddresses = 2

\* C8: without ping scan, each block has one port line per distinct port of
\* its host, in strictly ascending numeric order.
C8_OneLinePerPortAscending ==
    (pc = "done" /\ ~pingScan)
        => \A i \in ReportAt :
              LET ports == BlockPorts(i)
              IN  /\ \A k \in 1..(Len(ports) - 1) :
                        Number(ports[k].text) < Number(ports[k + 1].text)
                  /\ {Number(ports[k].text) : k \in 1..Len(ports)}
                        = AllPorts(HostOf(result[i].text))

\* C9: every port line carries the state of its port by membership of the
\* port value in the host's categories: filtered, else open, else closed.
C9_StateByMembership ==
    pc = "done"
        => \A i \in ReportAt :
              LET ports == BlockPorts(i)
                  host == HostOf(result[i].text)
              IN  \A k \in 1..Len(ports) :
                    ports[k].state
                        = IF Number(ports[k].text) \in PortSet(host.PortsFiltered)
                          THEN "filtered "
                          ELSE IF Number(ports[k].text) \in PortSet(host.PortsOpen)
                          THEN "open "
                          ELSE "closed "

====
